---------------------------- MODULE Spec2Model ----------------------------
(***************************************************************************)
(* A model of guiodyssey_to_fiftyone.py: process_episode (the per-step     *)
(* normalisation loop) and parse_gui_odyssey_dataset (the split loop).     *)
(*                                                                         *)
(* Python strings are sequences of one-character strings, so that          *)
(* str.startswith and str.replace are computed and not assumed.  Python    *)
(* floats are IEEE-754 binary64 values [sign, exp, mant] with a 53-bit     *)
(* mantissa (most significant bit first) and round-half-to-even.  Python   *)
(* lists and dicts that the code shares by reference live in an object     *)
(* store (lists, dicts) and are named by their index in it.                *)
(***************************************************************************)
EXTENDS Integers, Sequences, FiniteSets, TLC

VARIABLES
    \* ---- process_episode ----
    steps,       \* data["steps"]: the episode's step records, in order
    existing,    \* the screenshot files for which os.path.exists is true
    i,           \* position of the for loop of line 83 in steps
    pc,          \* "loop" | "returned" | "raised"
    dicts,       \* object store: the step_history dicts created at line 115
    lists,       \* object store: the list objects (history and its copies)
    history,     \* the list object the local name `history` is bound to
    samples,     \* the local list `samples`
    \* ---- parse_gui_odyssey_dataset ----
    splits,          \* the manifest read at line 29
    split_names,     \* argument
    limit_episodes,  \* argument: <<>> is None, <<n>> is the integer n
    results,         \* the local dict `results`
    si,              \* position of the for loop of line 33 in split_names
    episode_files,   \* the local list of line 38/40
    ei,              \* position of the for loop of line 46 in episode_files
    split_samples,   \* the local list `samples` of line 45
    processed,       \* the episode files handed to process_episode (line 47)
                     \* for the current split, in call order
    ppc,             \* "idle" | "split" | "episodes" | "returned" | "raised"
    outcome          \* what the caller of parse_gui_odyssey_dataset receives

evars == <<steps, existing, i, pc, dicts, lists, history, samples>>
pvars == <<splits, split_names, limit_episodes, results, si, episode_files,
           ei, split_samples, processed, ppc, outcome>>
vars == <<steps, existing, i, pc, dicts, lists, history, samples,
          splits, split_names, limit_episodes, results, si, episode_files,
          ei, split_samples, processed, ppc, outcome>>

---------------------------------------------------------------------------
(* Bounds of the model. *)

MaxSteps == 3
MaxRemainder == 4
MaxScrollCoord == 2
MaxEpisodes == 2
MaxSplits == 2
MaxLimit == 2

---------------------------------------------------------------------------
(* Small helpers. *)

Min(a, b) == IF a <= b THEN a ELSE b
Max(a, b) == IF a >= b THEN a ELSE b
Abs(a) == IF a < 0 THEN -a ELSE a
Last(s) == s[Len(s)]
Front(s) == SubSeq(s, 1, Len(s) - 1)
SeqsUpTo(S, n) == UNION {[1..k -> S] : k \in 0..n}

---------------------------------------------------------------------------
(* Python strings. *)

KeyPrefix == <<"K", "E", "Y", "_">>
CLICK == <<"C", "L", "I", "C", "K">>
LONG_PRESS == <<"L", "O", "N", "G", "_", "P", "R", "E", "S", "S">>
SCROLL == <<"S", "C", "R", "O", "L", "L">>
TEXT == <<"T", "E", "X", "T">>
COMPLETE == <<"C", "O", "M", "P", "L", "E", "T", "E">>
IMPOSSIBLE == <<"I", "M", "P", "O", "S", "S", "I", "B", "L", "E">>
INCOMPLETE == <<"I", "N", "C", "O", "M", "P", "L", "E", "T", "E">>
HOME == <<"H", "O", "M", "E">>
BACK == <<"B", "A", "C", "K">>
RECENT == <<"R", "E", "C", "E", "N", "T">>
LEFT == <<"L", "E", "F", "T">>
RIGHT == <<"R", "I", "G", "H", "T">>
UP == <<"U", "P">>
DOWN == <<"D", "O", "W", "N">>
Underscore == <<"_">>

\* str.startswith(prefix)
StartsWith(s, prefix) ==
    /\ Len(s) >= Len(prefix)
    /\ SubSeq(s, 1, Len(prefix)) = prefix

\* str.replace(old, new) for a non-empty old: every non-overlapping
\* occurrence, found left to right, is replaced.
RECURSIVE Replace(_, _, _)
Replace(s, old, new) ==
    IF Len(s) < Len(old) THEN s
    ELSE IF SubSeq(s, 1, Len(old)) = old
         THEN new \o Replace(SubSeq(s, Len(old) + 1, Len(s)), old, new)
         ELSE <<Head(s)>> \o Replace(Tail(s), old, new)

---------------------------------------------------------------------------
(* Python floats: IEEE-754 binary64, round-half-to-even.  A normal value   *)
(* is (-1)^sign * 1.f * 2^exp; frac holds the 52 bits of f as Limbs limbs  *)
(* of LimbBits bits each, most significant first (the leading 1 is         *)
(* implicit, as in the format).  The operands that occur here are integers *)
(* below 2^14, so every intermediate fits a machine word.                  *)

LimbBits == 13
Limbs == 4
Scale == 1000

RECURSIVE Pow2(_)
Pow2(n) == IF n = 0 THEN 1 ELSE 2 * Pow2(n - 1)

RECURSIVE BitLen(_)
BitLen(n) == IF n = 0 THEN 0 ELSE 1 + BitLen(n \div 2)

Base == Pow2(LimbBits)

ZeroFrac == [k \in 1..Limbs |-> 0]

FZero == [cls |-> "zero", sign |-> 0, exp |-> 0, frac |-> ZeroFrac]

\* limbs + 1 on a fixed-width limb string; carry is 1 when it wrapped.
RECURSIVE IncLimbs(_)
IncLimbs(limbs) ==
    IF limbs = <<>> THEN [limbs |-> <<>>, carry |-> 1]
    ELSE IF Last(limbs) < Base - 1
         THEN [limbs |-> Append(Front(limbs), Last(limbs) + 1), carry |-> 0]
         ELSE LET r == IncLimbs(Front(limbs))
              IN  [limbs |-> Append(r.limbs, 0), carry |-> r.carry]

\* Round-half-to-even of 1.frac * 2^e, given whether the discarded part is
\* above (1), at (0), or below (-1) half a unit in the last place.
RoundHalfEven(sign, e, frac, cmpHalf) ==
    IF cmpHalf > 0 \/ (cmpHalf = 0 /\ Last(frac) % 2 = 1)
    THEN LET r == IncLimbs(frac)
         IN  [cls |-> "normal", sign |-> sign,
              exp |-> e + r.carry, frac |-> r.limbs]
    ELSE [cls |-> "normal", sign |-> sign, exp |-> e, frac |-> frac]

\* float(n) for an integer n with |n| < 2^(LimbBits + 1): exact.
FromInt(n) ==
    IF n = 0 THEN FZero
    ELSE LET e == BitLen(Abs(n)) - 1
         IN  [cls  |-> "normal",
              sign |-> IF n < 0 THEN 1 ELSE 0,
              exp  |-> e,
              frac |-> [k \in 1..Limbs |->
                          IF k = 1 THEN (Abs(n) - Pow2(e)) * Pow2(LimbBits - e)
                          ELSE 0]]

\* k further quotient limbs of rem / b (rem < b), by long division.
RECURSIVE QuotLimbs(_, _, _)
QuotLimbs(rem, b, k) ==
    IF k = 0 THEN [limbs |-> <<>>, rem |-> rem]
    ELSE LET r == QuotLimbs((rem * Base) % b, b, k - 1)
         IN  [limbs |-> <<(rem * Base) \div b>> \o r.limbs, rem |-> r.rem]

\* The least s >= 0 with n * 2^s >= d.
RECURSIVE ShiftUp(_, _)
ShiftUp(n, d) == IF n >= d THEN 0 ELSE 1 + ShiftUp(2 * n, d)

\* The greatest e >= 0 with d * 2^e <= n (for n >= d).
RECURSIVE ShiftDown(_, _)
ShiftDown(n, d) == IF 2 * d > n THEN 0 ELSE 1 + ShiftDown(n, 2 * d)

\* float(n) / float(d) for integers n and d > 0: the correctly rounded
\* quotient (both operands are exact as floats).
DivInts(n, d) ==
    IF n = 0 THEN FZero
    ELSE LET a0 == Abs(n)
             up == ShiftUp(a0, d)
             dn == IF a0 >= d THEN ShiftDown(a0, d) ELSE 0
             a  == a0 * Pow2(up)
             b  == d * Pow2(dn)
             q  == QuotLimbs(a - b, b, Limbs)
             c  == IF 2 * q.rem > b THEN 1 ELSE IF 2 * q.rem = b THEN 0 ELSE -1
         IN  RoundHalfEven(IF n < 0 THEN 1 ELSE 0, dn - up, q.limbs, c)

\* limbs * k + carry, as limbs of the same width and the carry out.
RECURSIVE MulLimbs(_, _, _)
MulLimbs(limbs, k, carry) ==
    IF limbs = <<>> THEN [limbs |-> <<>>, carry |-> carry]
    ELSE LET d == Last(limbs) * k + carry
             r == MulLimbs(Front(limbs), k, d \div Base)
         IN  [limbs |-> Append(r.limbs, d % Base), carry |-> r.carry]

\* f * float(k) for an integer 0 < k < 2^LimbBits: the correctly rounded
\* product.
MulInt(f, k) ==
    IF f.cls = "zero" THEN FZero
    ELSE LET m     == MulLimbs(f.frac, k, 0)
             top   == k + m.carry
             x     == BitLen(top) - 1
             whole == <<top>> \o m.limbs
             frac  == [j \in 1..Limbs |->
                         (whole[j] % Pow2(x)) * Pow2(LimbBits - x)
                             + (whole[j + 1] \div Pow2(x))]
             lost  == Last(whole) % Pow2(x)
             c     == IF x = 0 THEN -1
                      ELSE IF lost > Pow2(x - 1) THEN 1
                      ELSE IF lost = Pow2(x - 1) THEN 0 ELSE -1
         IN  RoundHalfEven(f.sign, f.exp + x, frac, c)

\* Mutant: integer division, c // 1000.
NormalizeFloorDiv(c) == FromInt(c \div Scale)

\* float(c) / 1000.0   (lines 132-133 and 170-173)
Normalize(c) == DivInts(c, Scale)

---------------------------------------------------------------------------
(* process_episode: the data it reads. *)

\* The polymorphic `info` of a step: a list of [x, y] pairs, a str, or None.
ListInfo(pts) == [kind |-> "list", pts |-> pts, s |-> <<>>]
StrInfo(s) == [kind |-> "str", pts |-> <<>>, s |-> s]
NoneInfo == [kind |-> "none", pts |-> <<>>, s |-> <<>>]

\* The episode-level fields of the annotation file (lines 74-76).
EpisodeDoc ==
    [episode_id  |-> "ep",
     device_name |-> "Pixel",
     category    |-> "cat",
     meta_task   |-> "meta",
     task        |-> "task",
     instruction |-> "ins",
     app         |-> <<"app">>]

\* The steps of an annotation file built from step bodies: the step number
\* is the position and the screenshot file is named by it.
MkSteps(bodies) ==
    [k \in 1..Len(bodies) |->
        [step |-> k, screenshot |-> k,
         action |-> bodies[k].action, info |-> bodies[k].info]]

MkExisting(bodies) == {k \in 1..Len(bodies) : bodies[k].exists}

Body(ex, action, info) == [exists |-> ex, action |-> action, info |-> info]

---------------------------------------------------------------------------
(* process_episode: the loop body, lines 83-198. *)

\* Mutant: the existence check always succeeds.
ScreenshotAlwaysExists(sd, ex) == TRUE

\* os.path.exists(screenshot_path), line 90
ScreenshotExists(sd, ex) == sd.screenshot \in ex

\* Mutant: the history entry loses the step's info.
StepHistoryNoInfo(sd) ==
    [step |-> sd.step, action |-> sd.action, info |-> NoneInfo]

\* The dict of lines 115-119.
StepHistory(sd) == [step |-> sd.step, action |-> sd.action, info |-> sd.info]

\* Mutant: the sample is given the accumulator itself, not a copy.
AliasList(ls, h) == [lists |-> ls, ref |-> h]

\* history.copy(), line 121: a new list object with the same elements.
CopyList(ls, h) == [lists |-> Append(ls, ls[h]), ref |-> Len(ls) + 1]

\* Mutant: the direction follows the pointer (right and down for positive
\* deltas).
ScrollDirectionOfPointer(dx, dy) ==
    IF Abs(dx) > Abs(dy)
    THEN (IF dx > 0 THEN RIGHT ELSE LEFT)
    ELSE (IF dy > 0 THEN DOWN ELSE UP)

\* Mutant: a tie of |dx| and |dy| takes the horizontal branch.
ScrollDirectionTieHorizontal(dx, dy) ==
    IF Abs(dx) >= Abs(dy)
    THEN (IF dx > 0 THEN LEFT ELSE RIGHT)
    ELSE (IF dy > 0 THEN UP ELSE DOWN)

\* Lines 162-167.
ScrollDirection(dx, dy) ==
    IF Abs(dx) > Abs(dy)
    THEN (IF dx > 0 THEN LEFT ELSE RIGHT)
    ELSE (IF dy > 0 THEN UP ELSE DOWN)

\* info.replace("KEY_", ""), line 147
KeyLabel(s) == Replace(s, KeyPrefix, <<>>)

Classification(field, label) ==
    [field |-> field, type |-> "Classification", label |-> label,
     points |-> <<>>]

\* Lines 131-143: one Keypoint at the first pair of info.
PointPayload(action, info) ==
    [field  |-> "action_points", type |-> "Keypoints", label |-> action,
     points |-> << <<Normalize(info.pts[1][1]), Normalize(info.pts[1][2])>> >>]

\* Lines 154-184: one Polyline from info[0] to info[1].
ScrollPayload(action, info) ==
    LET start == info.pts[1]
        end   == info.pts[2]
        dx    == end[1] - start[1]
        dy    == end[2] - start[2]
    IN  [field  |-> "action_scroll", type |-> "Polylines",
         label  |-> action \o Underscore \o ScrollDirection(dx, dy),
         points |-> << <<Normalize(start[1]), Normalize(start[2])>>,
                       <<Normalize(end[1]), Normalize(end[2])>> >>]

\* Lines 123-196: the action-specific fields set on the sample.  A TEXT
\* step's info is a str in every episode considered here (what
\* fo.Classification does with another label type is the library's matter).
ActionPayload(action, info) ==
    IF action \in {CLICK, LONG_PRESS}
    THEN IF info.kind = "list"
         THEN {PointPayload(action, info)}
         ELSE IF info.kind = "str" /\ StartsWith(info.s, KeyPrefix)
              THEN {Classification("action_press", KeyLabel(info.s))}
              ELSE {}
    ELSE IF action = SCROLL
    THEN IF info.kind = "list" THEN {ScrollPayload(action, info)} ELSE {}
    ELSE IF action = TEXT
    THEN {Classification("action_type", info.s)}
    ELSE IF action \in {COMPLETE, IMPOSSIBLE, INCOMPLETE}
    THEN {Classification("action_end", action)}
    ELSE IF action \in {HOME, BACK, RECENT}
    THEN {Classification("action_press", action)}
    ELSE {}

\* The steps on which lines 123-196 raise: info[0] of an empty list
\* (line 131 or 154) and info[1] of a list of one pair (line 155).
Raises(sd) ==
    \/ sd.action \in {CLICK, LONG_PRESS} /\ sd.info.kind = "list"
        /\ Len(sd.info.pts) < 1
    \/ sd.action = SCROLL /\ sd.info.kind = "list" /\ Len(sd.info.pts) < 2

\* Lines 94-121 and 198: the sample of a step, its history at list `ref`.
Sample(sd, ref) ==
    [filepath           |-> sd.screenshot,
     episode_id         |-> EpisodeDoc.episode_id,
     device_name        |-> EpisodeDoc.device_name,
     step               |-> sd.step,
     category           |-> EpisodeDoc.category,
     meta_task          |-> EpisodeDoc.meta_task,
     task               |-> EpisodeDoc.task,
     instruction        |-> EpisodeDoc.instruction,
     apps_used          |-> EpisodeDoc.app,
     structured_history |-> ref,
     payload            |-> ActionPayload(sd.action, sd.info)]

\* The locals of process_episode after lines 80-81.
InitFrame ==
    [i |-> 1, pc |-> "loop", dicts |-> <<>>, lists |-> << <<>> >>,
     history |-> 1, samples |-> <<>>]

\* One iteration of the loop of line 83 on step sd.
LoopBody(f, sd, ex) ==
    IF ~ScreenshotExists(sd, ex)
    THEN [f EXCEPT !.i = @ + 1]
    ELSE LET d1 == Append(f.dicts, StepHistory(sd))
             l1 == [f.lists EXCEPT ![f.history] = Append(@, Len(d1))]
             cp == CopyList(l1, f.history)
         IN  IF Raises(sd)
             THEN [f EXCEPT !.dicts = d1, !.lists = cp.lists,
                            !.pc = "raised"]
             ELSE [f EXCEPT !.dicts = d1, !.lists = cp.lists,
                            !.samples = Append(@, Sample(sd, cp.ref)),
                            !.i = @ + 1]

\* process_episode as a whole (lines 80-200), for its caller.
RECURSIVE RunLoop(_, _, _)
RunLoop(f, ss, ex) ==
    IF f.pc # "loop" THEN f
    ELSE IF f.i > Len(ss) THEN [f EXCEPT !.pc = "returned"]
    ELSE RunLoop(LoopBody(f, ss[f.i], ex), ss, ex)

\* The history a sample holds, read through the object stores.
HistoryOf(smp, ls, ds) ==
    [j \in 1..Len(ls[smp.structured_history]) |->
        ds[ls[smp.structured_history][j]]]

\* The samples as values: each with its history read out.
Flatten(f) ==
    [k \in 1..Len(f.samples) |->
        [f.samples[k] EXCEPT
            !.structured_history = HistoryOf(f.samples[k], f.lists, f.dicts)]]

process_episode(doc) == RunLoop(InitFrame, doc.steps, doc.existing)

---------------------------------------------------------------------------
(* process_episode as a state machine. *)

Frame ==
    [i |-> i, pc |-> pc, dicts |-> dicts, lists |-> lists,
     history |-> history, samples |-> samples]

SetFrame(f) ==
    /\ i' = f.i
    /\ pc' = f.pc
    /\ dicts' = f.dicts
    /\ lists' = f.lists
    /\ history' = f.history
    /\ samples' = f.samples

\* Lines 90-92: the screenshot is missing, the step is skipped.
SkipStep ==
    /\ pc = "loop"
    /\ i <= Len(steps)
    /\ ~ScreenshotExists(steps[i], existing)
    /\ SetFrame(LoopBody(Frame, steps[i], existing))
    /\ UNCHANGED <<steps, existing>>
    /\ UNCHANGED pvars

\* Lines 94-198: the step's sample is built and appended.
EmitStep ==
    /\ pc = "loop"
    /\ i <= Len(steps)
    /\ ScreenshotExists(steps[i], existing)
    /\ ~Raises(steps[i])
    /\ SetFrame(LoopBody(Frame, steps[i], existing))
    /\ UNCHANGED <<steps, existing>>
    /\ UNCHANGED pvars

\* Lines 94-155: unpacking info raises and process_episode is left.
RaiseStep ==
    /\ pc = "loop"
    /\ i <= Len(steps)
    /\ ScreenshotExists(steps[i], existing)
    /\ Raises(steps[i])
    /\ SetFrame(LoopBody(Frame, steps[i], existing))
    /\ UNCHANGED <<steps, existing>>
    /\ UNCHANGED pvars

\* Line 200.
Return ==
    /\ pc = "loop"
    /\ i > Len(steps)
    /\ pc' = "returned"
    /\ UNCHANGED <<steps, existing, i, dicts, lists, history, samples>>
    /\ UNCHANGED pvars

Next == SkipStep \/ EmitStep \/ RaiseStep \/ Return

ParseIdle ==
    /\ splits = <<>>
    /\ split_names = <<>>
    /\ limit_episodes = <<>>
    /\ results = <<>>
    /\ si = 1
    /\ episode_files = <<>>
    /\ ei = 1
    /\ split_samples = <<>>
    /\ processed = <<>>
    /\ ppc = "idle"
    /\ outcome = [kind |-> "pending"]

\* process_episode entered on an episode whose steps are one of BodySeqs.
InitEpisodes(BodySeqs) ==
    /\ \E bodies \in BodySeqs :
          /\ steps = MkSteps(bodies)
          /\ existing = MkExisting(bodies)
    /\ i = InitFrame.i
    /\ pc = InitFrame.pc
    /\ dicts = InitFrame.dicts
    /\ lists = InitFrame.lists
    /\ history = InitFrame.history
    /\ samples = InitFrame.samples
    /\ ParseIdle

---------------------------------------------------------------------------
(* Spec: episodes of up to MaxSteps steps over every kind of step. *)

StepBodies ==
    { Body(TRUE, CLICK, ListInfo(<< <<500, 250>>, <<500, 250>> >>)),
      Body(TRUE, CLICK, StrInfo(KeyPrefix \o HOME)),
      Body(TRUE, LONG_PRESS, StrInfo(<<"X">>)),
      Body(TRUE, SCROLL, ListInfo(<< <<100, 100>>, <<100, 400>> >>)),
      Body(TRUE, SCROLL, ListInfo(<< <<100, 100>> >>)),
      Body(TRUE, SCROLL, StrInfo(<<"X">>)),
      Body(TRUE, TEXT, StrInfo(<<"h", "i">>)),
      Body(TRUE, COMPLETE, StrInfo(<<>>)),
      Body(TRUE, HOME, NoneInfo),
      Body(FALSE, CLICK, ListInfo(<< <<10, 20>>, <<10, 20>> >>)),
      Body(FALSE, TEXT, StrInfo(<<"n", "o">>)) }

Init == InitEpisodes(SeqsUpTo(StepBodies, MaxSteps))

Spec == Init /\ [][Next]_vars

---------------------------------------------------------------------------
(* What the claims speak of. *)

\* The closed vocabulary of actions.
Vocabulary ==
    {CLICK, LONG_PRESS, SCROLL, TEXT, COMPLETE, IMPOSSIBLE, INCOMPLETE,
     HOME, BACK, RECENT}

\* The steps among the first n whose screenshot exists, in order.
Retained(n) ==
    SelectSeq(SubSeq(steps, 1, n), LAMBDA sd : sd.screenshot \in existing)

\* The raw {step, action, info} triple of a step.
RawTriple(sd) == [step |-> sd.step, action |-> sd.action, info |-> sd.info]

\* The history the k-th emitted sample holds now.
SampleHistory(k) == HistoryOf(samples[k], lists, dicts)

\* The step the k-th emitted sample was made from.
StepOf(k) == steps[samples[k].step]

\* C1: the k-th emitted annotation's structured_history has exactly k
\* entries, and its j-th entry is the raw {step, action, info} triple of
\* the j-th retained step of the episode, whatever steps follow.
C1_HistoryIsRetainedPrefix ==
    \A k \in 1..Len(samples) :
        /\ Len(SampleHistory(k)) = k
        /\ \A j \in 1..k :
              SampleHistory(k)[j] = RawTriple(Retained(Len(steps))[j])

\* C1 witness: an episode with a dropped step was processed to the end and
\* emitted two annotations.
C1_Witness ==
    /\ pc = "returned"
    /\ Len(samples) = 2
    /\ Len(steps) = 3

C6_ExactlyOnePayload ==
    \A k \in 1..Len(samples) :
        StepOf(k).action \in Vocabulary
            => Cardinality(samples[k].payload) = 1

\* C10: a step of process_episode leaves every annotation emitted before it
\* in place with the same structured_history, and no annotation holds the
\* running accumulator itself.
C10_EmittedHistoryFrozen ==
    [][/\ \A k \in 1..Len(samples) :
             /\ k <= Len(samples')
             /\ HistoryOf(samples'[k], lists', dicts') = SampleHistory(k)
       /\ \A k \in 1..Len(samples') :
             samples'[k].structured_history # history']_vars

\* C10 witness: two later steps, one of them skipped and one emitted, were
\* processed after the first annotation was emitted.
C10_Witness ==
    /\ Len(steps) = 3
    /\ i = 4
    /\ Len(samples) = 2
    /\ samples[1].step = 1
    /\ samples[2].step = 3

---------------------------------------------------------------------------
(* SpecScroll: one SCROLL step, over every start and end point of          *)
(* ScrollCoords.                                                           *)

ScrollCoords == (0..MaxScrollCoord) \cup {50, 100, 400}

ScrollBodies ==
    {Body(TRUE, SCROLL, ListInfo(<< <<a, b>>, <<c, d>> >>)) :
        a \in ScrollCoords, b \in ScrollCoords,
        c \in ScrollCoords, d \in ScrollCoords}
    \cup {Body(TRUE, SCROLL, ListInfo(<< <<0, 0>> >>)),
          Body(FALSE, SCROLL, ListInfo(<< <<0, 0>>, <<0, 1>> >>))}

InitScroll == InitEpisodes(SeqsUpTo(ScrollBodies, 1))

SpecScroll == InitScroll /\ [][Next]_vars

\* The k-th sample comes from a SCROLL step with a start and an end point.
IsScroll(k) ==
    /\ StepOf(k).action = SCROLL
    /\ StepOf(k).info.kind = "list"
    /\ Len(StepOf(k).info.pts) = 2

ScrollDx(k) == StepOf(k).info.pts[2][1] - StepOf(k).info.pts[1][1]
ScrollDy(k) == StepOf(k).info.pts[2][2] - StepOf(k).info.pts[1][2]

\* The k-th sample has the single payload action_scroll, labelled label.
ScrollLabelled(k, label) ==
    /\ Cardinality(samples[k].payload) = 1
    /\ \A p \in samples[k].payload :
          p.field = "action_scroll" /\ p.label = label

\* C3 as claimed: (100,0) is SCROLL_RIGHT, (-100,0) SCROLL_LEFT, (0,100)
\* SCROLL_DOWN, (0,-100) SCROLL_UP, the tie (50,50) SCROLL_DOWN, and the
\* scroll from (100,100) to (100,400) SCROLL_DOWN.
C3_LabelsAsClaimed ==
    \A k \in 1..Len(samples) : IsScroll(k) =>
        /\ (ScrollDx(k) = 100 /\ ScrollDy(k) = 0)
              => ScrollLabelled(k, SCROLL \o Underscore \o RIGHT)
        /\ (ScrollDx(k) = -100 /\ ScrollDy(k) = 0)
              => ScrollLabelled(k, SCROLL \o Underscore \o LEFT)
        /\ (ScrollDx(k) = 0 /\ ScrollDy(k) = 100)
              => ScrollLabelled(k, SCROLL \o Underscore \o DOWN)
        /\ (ScrollDx(k) = 0 /\ ScrollDy(k) = -100)
              => ScrollLabelled(k, SCROLL \o Underscore \o UP)
        /\ (ScrollDx(k) = 50 /\ ScrollDy(k) = 50)
              => ScrollLabelled(k, SCROLL \o Underscore \o DOWN)
        /\ StepOf(k).info.pts = << <<100, 100>>, <<100, 400>> >>
              => ScrollLabelled(k, SCROLL \o Underscore \o DOWN)

\* C3 as amended: (100,0) is SCROLL_LEFT, (-100,0) SCROLL_RIGHT, (0,100)
\* SCROLL_UP, (0,-100) SCROLL_DOWN, the tie (50,50) SCROLL_UP, and the
\* scroll from (100,100) to (100,400) SCROLL_UP.
C3_LabelsOfCode ==
    \A k \in 1..Len(samples) : IsScroll(k) =>
        /\ (ScrollDx(k) = 100 /\ ScrollDy(k) = 0)
              => ScrollLabelled(k, SCROLL \o Underscore \o LEFT)
        /\ (ScrollDx(k) = -100 /\ ScrollDy(k) = 0)
              => ScrollLabelled(k, SCROLL \o Underscore \o RIGHT)
        /\ (ScrollDx(k) = 0 /\ ScrollDy(k) = 100)
              => ScrollLabelled(k, SCROLL \o Underscore \o UP)
        /\ (ScrollDx(k) = 0 /\ ScrollDy(k) = -100)
              => ScrollLabelled(k, SCROLL \o Underscore \o DOWN)
        /\ (ScrollDx(k) = 50 /\ ScrollDy(k) = 50)
              => ScrollLabelled(k, SCROLL \o Underscore \o UP)
        /\ StepOf(k).info.pts = << <<100, 100>>, <<100, 400>> >>
              => ScrollLabelled(k, SCROLL \o Underscore \o UP)

\* C3 witness: the scroll from (100,100) to (100,400) was emitted.
C3_Witness ==
    /\ Len(samples) = 1
    /\ IsScroll(1)
    /\ StepOf(1).info.pts = << <<100, 100>>, <<100, 400>> >>

\* C9: for a SCROLL step with two points the label is SCROLL_ followed by
\* LEFT if |dx| > |dy| and dx > 0, RIGHT if |dx| > |dy| and dx <= 0, UP if
\* |dx| <= |dy| and dy > 0, DOWN if |dx| <= |dy| and dy <= 0, and the path
\* is exactly start/1000 then end/1000.
C9_ScrollDirectionRule ==
    \A k \in 1..Len(samples) : IsScroll(k) =>
        LET dx == ScrollDx(k)
            dy == ScrollDy(k)
            pts == StepOf(k).info.pts
            suffix == IF Abs(dx) > Abs(dy) /\ dx > 0 THEN LEFT
                      ELSE IF Abs(dx) > Abs(dy) /\ dx <= 0 THEN RIGHT
                      ELSE IF Abs(dx) <= Abs(dy) /\ dy > 0 THEN UP
                      ELSE DOWN
        IN  /\ ScrollLabelled(k, SCROLL \o Underscore \o suffix)
            /\ \A p \in samples[k].payload :
                  p.points =
                     << <<DivInts(pts[1][1], Scale), DivInts(pts[1][2], Scale)>>,
                        <<DivInts(pts[2][1], Scale), DivInts(pts[2][2], Scale)>> >>

\* C9 witness: a tie with both deltas non-zero was emitted.
C9_Witness ==
    /\ Len(samples) = 1
    /\ IsScroll(1)
    /\ ScrollDx(1) = -2
    /\ ScrollDy(1) = 2

---------------------------------------------------------------------------
(* SpecPoint: a CLICK or LONG_PRESS step at every coordinate of 0..Scale,  *)
(* alone or followed by a step that differs from it only in info[1].       *)

OtherPairs == {<<0, 0>>, <<999, 1>>}

PointEpisodes ==
    UNION {
        LET first == Body(TRUE, a, ListInfo(<< xy, xy >>))
        IN  {<<first>>,
             <<Body(FALSE, a, ListInfo(<< xy, xy >>)), first>>,
             <<first, Body(TRUE, a, ListInfo(<<>>))>>}
            \cup {<<first, Body(TRUE, a, ListInfo(<< xy, q >>))>> :
                     q \in OtherPairs} :
        a \in {CLICK, LONG_PRESS},
        xy \in {<<x, Scale - x>> : x \in 0..Scale} \cup {<<500, 250>>} }

InitPoint == InitEpisodes(PointEpisodes)

SpecPoint == InitPoint /\ [][Next]_vars

\* The k-th sample comes from a point action with two coordinate pairs.
IsPoint(k) ==
    /\ StepOf(k).action \in {CLICK, LONG_PRESS}
    /\ StepOf(k).info.kind = "list"
    /\ Len(StepOf(k).info.pts) = 2

\* C8: a CLICK or LONG_PRESS step with two coordinate pairs yields the
\* single keypoint labelled with the action at (info[0].x / 1000,
\* info[0].y / 1000); two such steps that agree on info[0] yield the same
\* keypoint; and for a coordinate c in 0..1000 the normalized value times
\* 1000 is c again.
C8_KeypointFromFirstPair ==
    \A k \in 1..Len(samples) : IsPoint(k) =>
        LET x == StepOf(k).info.pts[1][1]
            y == StepOf(k).info.pts[1][2]
        IN  /\ Cardinality(samples[k].payload) = 1
            /\ \A p \in samples[k].payload :
                  /\ p.field = "action_points"
                  /\ p.label = StepOf(k).action
                  /\ p.points = << <<DivInts(x, Scale), DivInts(y, Scale)>> >>
                  /\ x \in 0..Scale
                        => MulInt(p.points[1][1], Scale) = FromInt(x)
                  /\ y \in 0..Scale
                        => MulInt(p.points[1][2], Scale) = FromInt(y)
            /\ \A k2 \in 1..Len(samples) :
                  (/\ IsPoint(k2)
                   /\ StepOf(k2).action = StepOf(k).action
                   /\ StepOf(k2).info.pts[1] = StepOf(k).info.pts[1])
                      => samples[k2].payload = samples[k].payload

\* C8 witness: two steps that differ only in info[1] were both emitted.
C8_Witness ==
    /\ Len(samples) = 2
    /\ IsPoint(1)
    /\ IsPoint(2)
    /\ StepOf(1).info.pts[1] = <<999, 1>>
    /\ StepOf(2).info.pts[1] = StepOf(1).info.pts[1]
    /\ StepOf(2).info.pts[2] # StepOf(1).info.pts[2]

---------------------------------------------------------------------------
(* SpecKey: one step that presses a key: a CLICK or LONG_PRESS whose info  *)
(* is KEY_ followed by any string of at most MaxRemainder characters, or a *)
(* bare navigation action.                                                 *)

KeyAlphabet == {"K", "E", "Y", "_", "H", "O", "M"}

KeyBodies ==
    {Body(TRUE, a, StrInfo(KeyPrefix \o r)) :
        a \in {CLICK, LONG_PRESS}, r \in SeqsUpTo(KeyAlphabet, MaxRemainder)}
    \cup {Body(TRUE, a, NoneInfo) : a \in {HOME, BACK, RECENT}}
    \cup {Body(FALSE, CLICK, StrInfo(KeyPrefix \o HOME)),
          Body(TRUE, CLICK, ListInfo(<<>>))}

InitKey == InitEpisodes(SeqsUpTo(KeyBodies, 1))

SpecKey == InitKey /\ [][Next]_vars

\* C7 as claimed: for a CLICK or LONG_PRESS step whose info is "KEY_" + r
\* the classification in action_press is labelled exactly r, and a bare
\* HOME action is labelled HOME in the same field.
C7_LabelIsRemainder ==
    \A k \in 1..Len(samples) :
        LET sd == StepOf(k)
        IN  /\ (/\ sd.action \in {CLICK, LONG_PRESS}
                /\ sd.info.kind = "str"
                /\ StartsWith(sd.info.s, KeyPrefix))
                  => /\ Cardinality(samples[k].payload) = 1
                     /\ \A p \in samples[k].payload :
                           /\ p.field = "action_press"
                           /\ p.label = SubSeq(sd.info.s, Len(KeyPrefix) + 1,
                                               Len(sd.info.s))
            /\ sd.action = HOME
                  => /\ Cardinality(samples[k].payload) = 1
                     /\ \A p \in samples[k].payload :
                           p.field = "action_press" /\ p.label = HOME

---------------------------------------------------------------------------
(* parse_gui_odyssey_dataset, lines 27-56. *)

\* The annotation files on disk and the screenshots that exist for each.
FileNames == {"e1", "e2", "e3"}

AnnotationBodies ==
    [f \in FileNames |->
        CASE f = "e1" ->
               << Body(TRUE, CLICK, ListInfo(<< <<500, 250>>, <<500, 250>> >>)),
                  Body(TRUE, SCROLL, ListInfo(<< <<100, 100>>, <<100, 400>> >>)) >>
          [] f = "e2" ->
               << Body(FALSE, CLICK, StrInfo(KeyPrefix \o HOME)),
                  Body(TRUE, TEXT, StrInfo(<<"h", "i">>)) >>
          [] f = "e3" ->
               << Body(TRUE, SCROLL, ListInfo(<< <<100, 100>> >>)) >>]

AnnotationFiles ==
    [f \in FileNames |->
        [steps    |-> MkSteps(AnnotationBodies[f]),
         existing |-> MkExisting(AnnotationBodies[f])]]

\* Truth value of `limit_episodes` in `if limit_episodes:` (line 39).
Truthy(opt) == Len(opt) = 1 /\ opt[1] # 0

\* seq[:n], line 40
SliceTo(seq, n) ==
    IF n >= 0 THEN SubSeq(seq, 1, Min(n, Len(seq)))
    ELSE SubSeq(seq, 1, Max(Len(seq) + n, 0))

\* Lines 38-40.
EpisodeFiles(manifest, name, limit) ==
    IF Truthy(limit) THEN SliceTo(manifest[name], limit[1])
    ELSE manifest[name]

\* results[split_name] = samples, line 53
DictSet(d, key, val) ==
    [x \in (DOMAIN d) \cup {key} |-> IF x = key THEN val ELSE d[x]]

\* Lines 33, 37-45: the next requested split is in the manifest.
BeginSplit ==
    /\ ppc = "split"
    /\ si <= Len(split_names)
    /\ split_names[si] \in DOMAIN splits
    /\ episode_files' = EpisodeFiles(splits, split_names[si], limit_episodes)
    /\ split_samples' = <<>>
    /\ processed' = <<>>
    /\ ei' = 1
    /\ ppc' = "episodes"
    /\ UNCHANGED <<splits, split_names, limit_episodes, results, si, outcome>>
    /\ UNCHANGED evars

\* Lines 33-35: the next requested split is not in the manifest.
SplitNotFound ==
    /\ ppc = "split"
    /\ si <= Len(split_names)
    /\ split_names[si] \notin DOMAIN splits
    /\ ppc' = "raised"
    /\ outcome' = [kind |-> "raised", exc |-> "ValueError",
                   split |-> split_names[si]]
    /\ UNCHANGED <<splits, split_names, limit_episodes, results, si,
                   episode_files, ei, split_samples, processed>>
    /\ UNCHANGED evars

\* Lines 46-51: an episode of the split is processed.
ProcessEpisode ==
    /\ ppc = "episodes"
    /\ ei <= Len(episode_files)
    /\ LET f == process_episode(AnnotationFiles[episode_files[ei]])
       IN  /\ f.pc = "returned"
           /\ split_samples' = split_samples \o Flatten(f)
    /\ processed' = Append(processed, episode_files[ei])
    /\ ei' = ei + 1
    /\ UNCHANGED <<splits, split_names, limit_episodes, results, si,
                   episode_files, ppc, outcome>>
    /\ UNCHANGED evars

\* Line 47: process_episode raises and the exception leaves the function.
EpisodeRaises ==
    /\ ppc = "episodes"
    /\ ei <= Len(episode_files)
    /\ process_episode(AnnotationFiles[episode_files[ei]]).pc = "raised"
    /\ processed' = Append(processed, episode_files[ei])
    /\ ppc' = "raised"
    /\ outcome' = [kind |-> "raised", exc |-> "IndexError",
                   split |-> split_names[si]]
    /\ UNCHANGED <<splits, split_names, limit_episodes, results, si,
                   episode_files, ei, split_samples>>
    /\ UNCHANGED evars

\* Lines 53-54: the split's samples are stored.
EndSplit ==
    /\ ppc = "episodes"
    /\ ei > Len(episode_files)
    /\ results' = DictSet(results, split_names[si], split_samples)
    /\ si' = si + 1
    /\ ppc' = "split"
    /\ UNCHANGED <<splits, split_names, limit_episodes, episode_files, ei,
                   split_samples, processed, outcome>>
    /\ UNCHANGED evars

\* Line 56.
ReturnResults ==
    /\ ppc = "split"
    /\ si > Len(split_names)
    /\ ppc' = "returned"
    /\ outcome' = [kind |-> "returned", value |-> results]
    /\ UNCHANGED <<splits, split_names, limit_episodes, results, si,
                   episode_files, ei, split_samples, processed>>
    /\ UNCHANGED evars

NextParse ==
    \/ BeginSplit
    \/ SplitNotFound
    \/ ProcessEpisode
    \/ EpisodeRaises
    \/ EndSplit
    \/ ReturnResults

EpisodeIdle ==
    /\ steps = <<>>
    /\ existing = {}
    /\ i = 1
    /\ pc = "idle"
    /\ dicts = <<>>
    /\ lists = <<>>
    /\ history = 1
    /\ samples = <<>>

SplitNames == {"train", "test"}

\* The manifests: "train" and "test" each present or absent.
Manifests ==
    UNION {{[n \in D |-> IF n = "train" THEN t ELSE u] :
               t \in SeqsUpTo(FileNames, MaxEpisodes),
               u \in {<<"e1">>, <<"e2", "e1">>}} :
           D \in SUBSET SplitNames}

InitParse ==
    /\ splits \in Manifests
    /\ split_names \in SeqsUpTo(SplitNames, MaxSplits)
    /\ limit_episodes \in {<<>>} \cup {<<n>> : n \in 0..MaxLimit}
    /\ results = <<>>
    /\ si = 1
    /\ episode_files = <<>>
    /\ ei = 1
    /\ split_samples = <<>>
    /\ processed = <<>>
    /\ ppc = "split"
    /\ outcome = [kind |-> "pending"]
    /\ EpisodeIdle

SpecParse == InitParse /\ [][NextParse]_vars

\* What the caller holds of `results` once the call has ended.
Delivered == IF outcome.kind = "returned" THEN outcome.value ELSE <<>>

\* C4 as claimed: when a requested split is absent from the manifest, the
\* error names that split and the results of the splits resolved before it
\* in the same call are not lost.
C4_SiblingResultsSurvive ==
    (outcome.kind = "raised" /\ outcome.exc = "ValueError") =>
        /\ outcome.split = split_names[si]
        /\ \A k \in 1..(si - 1) :
              /\ split_names[k] \in DOMAIN Delivered
              /\ Delivered[split_names[k]] = results[split_names[k]]

\* C5 as claimed: once the episodes of a requested split have been gone
\* through, those handed to process_episode are the first min(n, len(S))
\* elements of the split's manifest sequence S in order, for a maximum n,
\* and all of S when no maximum is given.
C5_ProcessedIsPrefix ==
    (ppc = "episodes" /\ ei > Len(episode_files)) =>
        LET S == splits[split_names[si]]
        IN  IF limit_episodes = <<>>
            THEN processed = S
            ELSE processed = SubSeq(S, 1, Min(limit_episodes[1], Len(S)))

=============================================================================
